---- MODULE Spec2Model ----
(***************************************************************************)
(* Model of generator.py, the WordPress module generator: the normalizer   *)
(* (slugify, to_snake_case, to_label), the field parser, the deterministic *)
(* key generator, the ACF schema builder and the `module` command with the *)
(* generation orchestrator and the file system it writes to.               *)
(*                                                                         *)
(* A Python str is a sequence of one-character strings; a dict is a        *)
(* function whose domain is its key set; a Path is a sequence of           *)
(* components, each a str.                                                 *)
(***************************************************************************)
EXTENDS Integers, Sequences, FiniteSets, TLC

VARIABLES
    input,          \* argument(s) of the pure function under check
    output,         \* its result, None before the call
    registry,       \* the module-level dict SUPPORTED_TYPES
    pc,             \* position of the `module` command
    name,           \* CLI argument NAME
    fields,         \* CLI argument FIELDS (tuple of raw tokens)
    parsed_fields,  \* list built by the parsing loop
    dirs,           \* file system: set of directory paths
    files,          \* file system: path -> content
    exit_code,      \* process exit status, None while running
    stderr,         \* error messages echoed with err=True
    run,            \* observation of the current invocation
    history         \* observations of the completed invocations

vars == <<input, output, registry, pc, name, fields, parsed_fields,
          dirs, files, exit_code, stderr, run, history>>

\* Python None, and a present value
None == <<>>
Some(v) == <<v>>

-----------------------------------------------------------------------------
(* Bounds of the model *)

\* longest text handed to the normalizer / longest raw field name
MaxLen == 4
\* number of invocations of the `module` command in one behaviour
MaxRuns == 2
\* number of invocations in one behaviour that meet a failing render or
\* file-system call
MaxFaults == 1
\* most field tokens on one command line
MaxFields == 2
\* hex digits kept of the digest in the model (the code keeps 8 of md5)
HexWidth == 2

-----------------------------------------------------------------------------
(* Characters *)

Uppers == <<"A","B","C","D","E","F","G","H","I","J","K","L","M",
            "N","O","P","Q","R","S","T","U","V","W","X","Y","Z",
            "À","É","Î","Ô","Ü","Ç","Ñ">>
Lowers == <<"a","b","c","d","e","f","g","h","i","j","k","l","m",
            "n","o","p","q","r","s","t","u","v","w","x","y","z",
            "à","é","î","ô","ü","ç","ñ">>
Digits == <<"0","1","2","3","4","5","6","7","8","9">>
Others == <<"-","_"," ",":",".","/",",","'">>

AllChars == Uppers \o Lowers \o Digits \o Others

Range(s) == {s[i] : i \in DOMAIN s}

IndexOf(c, s) == CHOOSE i \in DOMAIN s : s[i] = c

\* str.lower() on one character
LowerChar(c) == IF c \in Range(Uppers) THEN Lowers[IndexOf(c, Uppers)] ELSE c

\* str.upper() on one character
UpperChar(c) == IF c \in Range(Lowers) THEN Uppers[IndexOf(c, Lowers)] ELSE c

IsCased(c) == c \in Range(Uppers) \cup Range(Lowers)

AsciiLower == {Lowers[i] : i \in 1..26}
AsciiAlnum == AsciiLower \cup Range(Digits)

\* all strings over alphabet of length at most n
Strings(alphabet, n) == UNION {[1..k -> alphabet] : k \in 0..n}

-----------------------------------------------------------------------------
(* Normalizer *)

\* text.lower()
Lower(text) == [i \in DOMAIN text |-> LowerChar(text[i])]

\* re.sub('[class]', repl, text) for a one-character replacement
SubClass(class, repl, text) ==
    [i \in DOMAIN text |-> IF text[i] \in class THEN repl ELSE text[i]]

\* re.sub(r'[^a-z0-9]+', '-', text): every maximal run becomes one hyphen
RECURSIVE SubRuns(_)
SubRuns(text) ==
    IF text = <<>> THEN <<>>
    ELSE IF text[1] \in AsciiAlnum THEN <<text[1]>> \o SubRuns(Tail(text))
    ELSE IF Len(text) > 1 /\ text[2] \notin AsciiAlnum THEN SubRuns(Tail(text))
    ELSE <<"-">> \o SubRuns(Tail(text))

\* the same substitution without the '+': one hyphen per character
SubEach(text) ==
    [i \in DOMAIN text |-> IF text[i] \in AsciiAlnum THEN text[i] ELSE "-"]

RECURSIVE LStrip(_, _)
LStrip(text, c) ==
    IF text # <<>> /\ text[1] = c THEN LStrip(Tail(text), c) ELSE text

RECURSIVE RStrip(_, _)
RStrip(text, c) ==
    IF text # <<>> /\ text[Len(text)] = c
    THEN RStrip(SubSeq(text, 1, Len(text) - 1), c) ELSE text

\* text.strip(c)
Strip(text, c) == RStrip(LStrip(text, c), c)

\* text.replace(old, new) for one-character old and new
Replace(text, old, new) ==
    [i \in DOMAIN text |-> IF text[i] = old THEN new ELSE text[i]]

FoldAccents(text) ==
    SubClass({"ç"}, "c",
     SubClass({"ù","ú","û","ü"}, "u",
      SubClass({"ò","ó","ô","õ","ö"}, "o",
       SubClass({"ì","í","î","ï"}, "i",
        SubClass({"è","é","ê","ë"}, "e",
         SubClass({"à","á","â","ã","ä","å"}, "a", text))))))

\* slugify with the run substitution done per character
slugify_norun(text) == Strip(SubEach(FoldAccents(Lower(text))), "-")

slugify(text) == Strip(SubRuns(FoldAccents(Lower(text))), "-")

to_snake_case(text) == Replace(slugify(text), "-", "_")

\* str.title(): a cased character is upper-cased when the previous character
\* is not cased, lower-cased otherwise
Title(text) ==
    [i \in DOMAIN text |->
        IF i > 1 /\ IsCased(text[i - 1])
        THEN LowerChar(text[i]) ELSE UpperChar(text[i])]

to_label(text) == Title(Replace(Replace(text, "-", " "), "_", " "))

-----------------------------------------------------------------------------
(* Field Type Registry *)

T_text     == <<"t","e","x","t">>
T_textarea == <<"t","e","x","t","a","r","e","a">>
T_image    == <<"i","m","a","g","e">>
T_number   == <<"n","u","m","b","e","r">>
T_wysiwyg  == <<"w","y","s","i","w","y","g">>
T_select   == <<"s","e","l","e","c","t">>
T_date     == <<"d","a","t","e">>

\* the default labels, as str values
S_Texte == <<"T","e","x","t","e">>
S_Zone_de_texte == <<"Z","o","n","e"," ","d","e"," ","t","e","x","t","e">>
S_Image == <<"I","m","a","g","e">>
S_Nombre == <<"N","o","m","b","r","e">>
S_Editeur_WYSIWYG == <<"É","d","i","t","e","u","r"," ","W","Y","S","I","W","Y","G">>
S_Liste_deroulante == <<"L","i","s","t","e"," ","d","é","r","o","u","l","a","n","t","e">>
S_Date == <<"D","a","t","e">>

\* the keys of SUPPORTED_TYPES in insertion order
SUPPORTED_KEYS ==
    <<T_text, T_textarea, T_image, T_number, T_wysiwyg, T_select, T_date>>

SUPPORTED_TYPES ==
    [k \in Range(SUPPORTED_KEYS) |->
        CASE k = T_text     -> [type |-> "text", label |-> S_Texte]
          [] k = T_textarea -> [type |-> "textarea", label |-> S_Zone_de_texte]
          [] k = T_image    -> [type |-> "image", label |-> S_Image,
                                return_format |-> "array",
                                preview_size |-> "medium"]
          [] k = T_number   -> [type |-> "number", label |-> S_Nombre]
          [] k = T_wysiwyg  -> [type |-> "wysiwyg", label |-> S_Editeur_WYSIWYG,
                                tabs |-> "all", toolbar |-> "full"]
          [] k = T_select   -> [type |-> "select", label |-> S_Liste_deroulante,
                                choices |-> [option1 |-> "Option 1",
                                             option2 |-> "Option 2"]]
          [] k = T_date     -> [type |-> "date_picker", label |-> S_Date,
                                display_format |-> "d/m/Y",
                                return_format |-> "Y-m-d"]]

-----------------------------------------------------------------------------
(* Field Parser *)

Field(n, t, l) == [name |-> n, field_type |-> t, label |-> l]

\* str.find(c): index of the first occurrence, 0 when absent
Find(text, c) ==
    IF c \in Range(text)
    THEN CHOOSE i \in DOMAIN text :
            text[i] = c /\ \A j \in 1..(i - 1) : text[j] # c
    ELSE 0

\* str.rfind(c): index of the last occurrence, 0 when absent
RFind(text, c) ==
    IF c \in Range(text)
    THEN CHOOSE i \in DOMAIN text :
            text[i] = c /\ \A j \in (i + 1)..Len(text) : text[j] # c
    ELSE 0

SplitAt(text, i) == <<SubSeq(text, 1, i - 1), SubSeq(text, i + 1, Len(text))>>

\* text.rsplit(sep, 1), for text that contains sep
RSplit1(text, sep) == SplitAt(text, RFind(text, sep))

\* text.split(sep, 1), for text that contains sep
Split1(text, sep) == SplitAt(text, Find(text, sep))

\* ', '.join(SUPPORTED_TYPES.keys()), kept as the list of the joined keys
JoinKeys(reg) == SelectSeq(SUPPORTED_KEYS, LAMBDA k : k \in DOMAIN reg)

BadParameter(kind, text, valid) ==
    [raised |-> "BadParameter", kind |-> kind, text |-> text, valid |-> valid]

Returned(v) == [raised |-> "", value |-> v]

parse_field(field_str) ==
    IF ":" \notin Range(field_str)
    THEN BadParameter("Format invalide", field_str, <<>>)
    ELSE LET parts == Split1(field_str, ":")
             nm == parts[1]
             field_type == parts[2]
         IN  IF field_type \notin DOMAIN registry
             THEN BadParameter("Type non supporté", field_type,
                               JoinKeys(registry))
             ELSE Returned(Field(to_snake_case(nm), field_type, to_label(nm)))

-----------------------------------------------------------------------------
(* Deterministic Key Generator *)

HexChars == <<"0","1","2","3","4","5","6","7","8","9","a","b","c","d","e","f">>

RECURSIVE Pow(_, _)
Pow(b, n) == IF n = 0 THEN 1 ELSE b * Pow(b, n - 1)

\* number of values of a hex prefix of HexWidth digits
HashSpace == Pow(16, HexWidth)

CharCode(c) == IndexOf(c, AllChars)

\* The digest: hashlib.md5 is a library function, stood in for by a
\* deterministic many-to-one function of the whole byte string.
RECURSIVE Digest(_, _)
Digest(text, h) ==
    IF text = <<>> THEN h
    ELSE Digest(Tail(text), (h * 31 + CharCode(text[1])) % HashSpace)

RECURSIVE Hex(_, _)
Hex(v, width) ==
    IF width = 0 THEN <<>>
    ELSE Hex(v \div 16, width - 1) \o <<HexChars[(v % 16) + 1]>>

\* hashlib.md5(text.encode()).hexdigest()[:8]
md5_hexdigest_prefix(text) == Hex(Digest(text, 7), HexWidth)

\* unique_str of generate_field_key
unique_str(module_name, field_name) == module_name \o <<"_">> \o field_name

generate_field_key(module_name, field_name) ==
    <<"f","i","e","l","d","_">>
        \o md5_hexdigest_prefix(unique_str(module_name, field_name))

generate_group_key(module_name) ==
    <<"g","r","o","u","p","_">> \o md5_hexdigest_prefix(module_name)

-----------------------------------------------------------------------------
(* Schema Builder *)

\* dict.pop(key, None) on d
Pop(d, key) == [k \in (DOMAIN d) \ {key} |-> d[k]]

\* {**base, **over}: the later keys win
Merge(base, over) ==
    [k \in (DOMAIN base) \cup (DOMAIN over) |->
        IF k \in DOMAIN over THEN over[k] ELSE base[k]]

\* the per-type attributes merged into a field entry, without the pops
type_config_unpopped(reg, field_type) == Pop(reg[field_type], "type")

\* type_config after .copy(), .pop("type") and .pop("label", None)
type_config_of(reg, field_type) == Pop(Pop(reg[field_type], "type"), "label")

\* build_acf_field: the entry, and SUPPORTED_TYPES as the call leaves it
\* (the pops act on the copy, so the registry itself is not touched)
build_acf_field(reg, field, module_name, order) ==
    LET field_type == reg[field.field_type]["type"]
        type_config == type_config_of(reg, field.field_type)
        acf_field ==
            Merge([key |-> generate_field_key(module_name, field.name),
                   label |-> field.label,
                   name |-> field.name,
                   type |-> field_type,
                   instructions |-> "",
                   required |-> 0,
                   conditional_logic |-> 0,
                   wrapper |-> [width |-> "", class |-> "", id |-> ""]],
                  type_config)
    IN  [acf_field |-> acf_field, registry |-> reg]

\* build_acf_json at clock reading now
build_acf_json(reg, module_name, slug, flds, now) ==
    [key |-> generate_group_key(module_name),
     title |-> <<"C","h","a","m","p","s"," ">> \o module_name,
     fields |-> [i \in DOMAIN flds |->
                    build_acf_field(reg, flds[i], module_name, i - 1).acf_field],
     location |-> <<<<[param |-> "post_type", operator |-> "==",
                       value |-> slug]>>>>,
     menu_order |-> 0,
     position |-> "normal",
     style |-> "default",
     label_placement |-> "top",
     instruction_placement |-> "label",
     hide_on_screen |-> "",
     active |-> TRUE,
     description |-> <<"G","r","o","u","p","e"," ","d","e"," ","c","h","a","m",
                       "p","s"," ","p","o","u","r"," ","l","e"," ","m","o","d",
                       "u","l","e"," ">> \o module_name,
     show_in_rest |-> 1,
     modified |-> now]

-----------------------------------------------------------------------------
(* The `module` command is not running: its state in the specifications    *)
(* that exercise one function at a time.                                   *)

procVars == <<pc, name, fields, parsed_fields, dirs, files, exit_code,
              stderr, run, history>>

ProcIdle ==
    /\ pc = "idle"
    /\ name = <<>>
    /\ fields = <<>>
    /\ parsed_fields = <<>>
    /\ dirs = {}
    /\ files = <<>>
    /\ exit_code = None
    /\ stderr = <<>>
    /\ run = <<>>
    /\ history = <<>>

-----------------------------------------------------------------------------
(* SpecNorm: slugify and to_snake_case applied to one text *)

NormAlphabet == {"a", "B", "é", "ñ", "1", "-", "_", " "}

InitNorm ==
    /\ input \in Strings(NormAlphabet, MaxLen)
    /\ output = [slug |-> None, snake |-> None]
    /\ registry = SUPPORTED_TYPES
    /\ ProcIdle

CallSlugify ==
    /\ pc = "idle"
    /\ output.slug = None
    /\ output' = [output EXCEPT !.slug = Some(slugify(input))]
    /\ UNCHANGED <<input, registry, procVars>>

CallToSnakeCase ==
    /\ pc = "idle"
    /\ output.snake = None
    /\ output' = [output EXCEPT !.snake = Some(to_snake_case(input))]
    /\ UNCHANGED <<input, registry, procVars>>

NextNorm == CallSlugify \/ CallToSnakeCase

SpecNorm == InitNorm /\ [][NextNorm]_vars

-----------------------------------------------------------------------------
(* SpecParse: parse_field applied to one raw token *)

ParseAlphabet == {"a", "B", "é", "-", "_", ":"}

\* type portions tried: every registry key and some strings that are no key
TypeStrings ==
    Range(SUPPORTED_KEYS) \cup
    { <<>>, <<"T","e","x","t">>, <<"t","e","x","t"," ">>,
      <<"c","u","r","r","e","n","c","y">>,
      <<"d","a","t","e","_","p","i","c","k","e","r">> }

RawTokens ==
    Strings(ParseAlphabet, MaxLen - 1) \cup
    { n \o <<":">> \o t : n \in Strings(ParseAlphabet, MaxLen - 1),
                          t \in TypeStrings }

InitParse ==
    /\ input \in RawTokens
    /\ output = None
    /\ registry = SUPPORTED_TYPES
    /\ ProcIdle

CallParseField ==
    /\ pc = "idle"
    /\ output = None
    /\ output' = Some(parse_field(input))
    /\ UNCHANGED <<input, registry, procVars>>

NextParse == CallParseField

SpecParse == InitParse /\ [][NextParse]_vars

-----------------------------------------------------------------------------
(* SpecKey: generate_field_key applied to two (module, field) pairs *)

KeyAlphabet == {"a", "_"}

\* non-empty module names
KeyModuleNames == Strings(KeyAlphabet, MaxLen - 1) \ {<<>>}

\* the non-empty field names the parser can hand over
KeyFieldNames ==
    {to_snake_case(n) : n \in Strings(KeyAlphabet, MaxLen - 1)} \ {<<>>}

InitKey ==
    /\ input \in [m1 : KeyModuleNames, f1 : KeyFieldNames,
                  m2 : KeyModuleNames, f2 : KeyFieldNames]
    /\ output = None
    /\ registry = SUPPORTED_TYPES
    /\ ProcIdle

CallGenerateFieldKey ==
    /\ pc = "idle"
    /\ output = None
    /\ output' = Some([s1 |-> unique_str(input.m1, input.f1),
                       s2 |-> unique_str(input.m2, input.f2),
                       k1 |-> generate_field_key(input.m1, input.f1),
                       k2 |-> generate_field_key(input.m2, input.f2)])
    /\ UNCHANGED <<input, registry, procVars>>

NextKey == CallGenerateFieldKey

SpecKey == InitKey /\ [][NextKey]_vars

-----------------------------------------------------------------------------
(* File system *)

\* Path(p) / component; joining the empty string gives the path itself
Join(p, component) == IF component = <<>> THEN p ELSE Append(p, component)

Parent(p) == SubSeq(p, 1, Len(p) - 1)

\* p and all its ancestors below the working directory
WithParents(p) == {SubSeq(p, 1, k) : k \in 1..Len(p)}

\* the working directory (the empty path) always exists
IsDir(ds, p) == p = <<>> \/ p \in ds

\* Path.mkdir(parents, exist_ok) on directories ds and files fs
Mkdir(ds, fs, p, parents, exist_ok) ==
    IF IsDir(ds, p)
    THEN [raised |-> IF exist_ok THEN "" ELSE "FileExistsError", dirs |-> ds]
    ELSE IF p \in DOMAIN fs
    THEN [raised |-> "FileExistsError", dirs |-> ds]
    ELSE IF ~parents /\ ~IsDir(ds, Parent(p))
    THEN [raised |-> "FileNotFoundError", dirs |-> ds]
    ELSE [raised |-> "",
          dirs |-> ds \cup (IF parents THEN WithParents(p) ELSE {p})]

\* the module directory made without exist_ok
MkdirModuleDirStrict(ds, fs, p) == Mkdir(ds, fs, p, TRUE, FALSE)

\* module_dir.mkdir(parents=True, exist_ok=True)
MkdirModuleDir(ds, fs, p) == Mkdir(ds, fs, p, TRUE, TRUE)

\* (module_dir / sub).mkdir(exist_ok=True)
MkdirSubdir(ds, fs, p) == Mkdir(ds, fs, p, FALSE, TRUE)

Put(fs, p, content) ==
    [q \in (DOMAIN fs) \cup {p} |-> IF q = p THEN content ELSE fs[q]]

\* Path.write_text(content): creates or overwrites the file
WriteText(ds, fs, p, content) ==
    IF IsDir(ds, p) THEN [raised |-> "IsADirectoryError", files |-> fs]
    ELSE IF ~IsDir(ds, Parent(p))
    THEN [raised |-> "FileNotFoundError", files |-> fs]
    ELSE [raised |-> "", files |-> Put(fs, p, content)]

\* a file opened for writing whose write did not complete
Truncated == [kind |-> "empty"]

\* the files below directory d
FilesUnder(fs, d) ==
    {p \in DOMAIN fs : Len(p) > Len(d) /\ SubSeq(p, 1, Len(d)) = d}

\* the files directly in directory d
FilesIn(fs, d) == {p \in DOMAIN fs : Len(p) = Len(d) + 1 /\ Parent(p) = d}

-----------------------------------------------------------------------------
(* The `module` command and the generation orchestrator *)

\* directory and file name parts
OUT_DIR == <<"o","u","t","p","u","t">>
D_acf_json == <<"a","c","f","-","j","s","o","n">>
D_includes == <<"i","n","c","l","u","d","e","s">>
D_templates == <<"t","e","m","p","l","a","t","e","s">>
S_cpt == <<"c","p","t","-">>
S_single == <<"s","i","n","g","l","e","-">>
S_archive == <<"a","r","c","h","i","v","e","-">>
S_shortcode == <<"s","h","o","r","t","c","o","d","e","-">>
S_php == <<".","p","h","p">>
S_json == <<".","j","s","o","n">>
S_README_md == <<"R","E","A","D","M","E",".","m","d">>

Min(a, b) == IF a < b THEN a ELSE b

\* command lines tried
ModuleNames == {<<"P","é">>, <<"p","e">>}

G_bc_date == <<"B","-","c",":">> \o T_date
G_a_text  == <<"a",":">> \o T_text
B_type    == <<"a",":","T","e","x","t">>
B_format  == <<"a">>

\* the FIELDS tuples tried: well-formed ones, and ones with a token that
\* does not parse in first or in last position
FieldLists ==
    { <<G_bc_date>>, <<G_bc_date, G_a_text>>,
      <<B_format>>, <<G_bc_date, B_type>>, <<B_type, G_a_text>> }

\* the fault an action meets: none, or one of may while the behaviour has
\* faults left
Faults(may) ==
    {"none"} \cup (IF history.faults < MaxFaults THEN may ELSE {})

\* Path(output).resolve() for the default --output
OutputPath == <<OUT_DIR>>

\* template.render(**context): the external engine, a function of both
Render(template, context) ==
    [kind |-> "rendered", template |-> template, context |-> context]

\* json.dumps(acf_data, indent=2, ensure_ascii=False)
JsonDumps(acf_data) == [kind |-> "json", data |-> acf_data]

\* the seven calls of generate() in a different order
StepOrderSwapped ==
    <<"cpt", "acf_json", "archive", "single", "shortcode", "plugin", "readme">>

\* the seven calls of generate(), in order
StepOrder ==
    <<"cpt", "acf_json", "single", "archive", "shortcode", "plugin", "readme">>

\* the position after step: the next call of generate(), or the file listing
AfterStep(step) ==
    LET k == IndexOf(step, StepOrder)
    IN  IF k = Len(StepOrder) THEN "list" ELSE StepOrder[k + 1]

\* the parsing loop stops after the first token
ParseDoneAfterFirst(parsed, flds) == Len(parsed) >= 1

\* the `for field_str in fields` loop has consumed every token
ParseDone(parsed, flds) == Len(parsed) = Len(flds)

\* datetime.now() reads later in each invocation: the reading is the
\* ordinal of the invocation
FreshRun(now) ==
    [now |-> now,
     dirs0 |-> dirs,
     files0 |-> files,
     parse_failed |-> FALSE,
     generate_started |-> FALSE,
     dirs_at_first_step |-> None,
     started |-> <<>>,
     written |-> <<>>,
     fault |-> FALSE,
     module_dir |-> <<>>,
     context |-> <<>>,
     group_key |-> None,
     field_keys |-> None]

\* what is remembered of a finished invocation
Summary ==
    [name |-> name,
     fields |-> fields,
     now |-> run.now,
     exit_code |-> exit_code,
     paths |-> {run.written[i].path : i \in DOMAIN run.written},
     group_key |-> run.group_key,
     field_keys |-> run.field_keys,
     tree |-> FilesUnder(files, run.module_dir)]

Init ==
    /\ input = <<>>
    /\ output = None
    /\ registry = SUPPORTED_TYPES
    /\ pc = "idle"
    /\ name = <<>>
    /\ fields = <<>>
    /\ parsed_fields = <<>>
    /\ dirs = {}
    /\ files = <<>>
    /\ exit_code = None
    /\ stderr = <<>>
    /\ run = <<>>
    /\ history = [count |-> 0, faults |-> 0, prev |-> None, slugs |-> {},
                  all_ok |-> TRUE]

\* wp-gen module NAME FIELDS...: a new process, on the file system the
\* earlier invocations left
Invoke ==
    /\ pc \in {"idle", "exited"}
    /\ history.count < MaxRuns
    /\ \E n \in ModuleNames, flds \in FieldLists :
        /\ name' = n
        /\ fields' = flds
        /\ run' = FreshRun(history.count + 1)
    /\ parsed_fields' = <<>>
    /\ exit_code' = None
    /\ stderr' = <<>>
    /\ history' =
         IF pc = "idle" THEN [history EXCEPT !.count = 1]
         ELSE [count |-> history.count + 1,
               faults |-> history.faults + (IF run.fault THEN 1 ELSE 0),
               prev |-> Some(Summary),
               slugs |-> history.slugs \cup {slugify(name)},
               all_ok |-> history.all_ok /\ exit_code = Some(0)]
    /\ pc' = "parse"
    /\ UNCHANGED <<input, output, registry, dirs, files>>

\* one iteration of the parsing loop of module()
ParseNextField ==
    /\ pc = "parse"
    /\ LET r == parse_field(fields[Len(parsed_fields) + 1]) IN
       IF r.raised # ""
       THEN /\ stderr' = Append(stderr, r)
            /\ exit_code' = Some(1)
            /\ run' = [run EXCEPT !.parse_failed = TRUE]
            /\ pc' = "exited"
            /\ UNCHANGED parsed_fields
       ELSE /\ parsed_fields' = Append(parsed_fields, r.value)
            /\ pc' = IF ParseDone(parsed_fields', fields)
                     THEN "generate" ELSE "parse"
            /\ UNCHANGED <<stderr, exit_code, run>>
    /\ UNCHANGED <<input, output, registry, name, fields, dirs, files, history>>

\* the except clause of module(): report and exit with status 1
Abort(step, exc, ds, fs, env) ==
    /\ dirs' = ds
    /\ files' = fs
    /\ stderr' = Append(stderr, [raised |-> exc, step |-> step])
    /\ exit_code' = Some(1)
    /\ pc' = "exited"
    /\ UNCHANGED <<input, output, registry, name, fields, parsed_fields, history>>

\* generate() up to its first _generate_ call: the two mkdir calls and the
\* template context
GenerateStart ==
    /\ pc = "generate"
    /\ \E fault \in Faults({"mkdir_root", "mkdir_acf"}) :
        LET slug == slugify(name)
            snake_name == to_snake_case(name)
            module_dir == Join(OutputPath, slug)
            m1 == MkdirModuleDir(dirs, files, module_dir)
            m2 == MkdirSubdir(m1.dirs, files, Join(module_dir, D_acf_json))
            context == [module_name |-> name,
                        slug |-> slug,
                        snake_name |-> snake_name,
                        prefix |-> SubSeq(snake_name, 1, Min(3, Len(snake_name))),
                        fields |-> parsed_fields,
                        field_types |-> registry,
                        generated_at |-> run.now]
            begun == [run EXCEPT !.generate_started = TRUE,
                                 !.module_dir = module_dir]
        IN  IF fault = "mkdir_root"
            THEN /\ run' = [begun EXCEPT !.fault = TRUE]
                 /\ Abort("mkdir", "OSError", dirs, files, TRUE)
            ELSE IF m1.raised # ""
            THEN /\ run' = begun
                 /\ Abort("mkdir", m1.raised, dirs, files, FALSE)
            ELSE IF fault = "mkdir_acf"
            THEN /\ run' = [begun EXCEPT !.fault = TRUE]
                 /\ Abort("mkdir", "OSError", m1.dirs, files, TRUE)
            ELSE IF m2.raised # ""
            THEN /\ run' = begun
                 /\ Abort("mkdir", m2.raised, m1.dirs, files, FALSE)
            ELSE /\ run' = [begun EXCEPT !.context = context,
                                         !.dirs_at_first_step = Some(m2.dirs)]
                 /\ dirs' = m2.dirs
                 /\ pc' = StepOrder[1]
                 /\ UNCHANGED <<input, output, registry, name, fields,
                                parsed_fields, files, exit_code, stderr,
                                history>>

\* one _generate_ method that renders template, makes subdir (when it has
\* one) and writes the file
TemplateStep(step, template, subdir, filename) ==
    /\ pc = step
    /\ \E fault \in Faults({"render", "mkdir", "open", "write"}) :
        LET module_dir == run.module_dir
            content == Render(template, run.context)
            dir == Join(module_dir, subdir)
            md == IF subdir = <<>> THEN [raised |-> "", dirs |-> dirs]
                  ELSE MkdirSubdir(dirs, files, dir)
            path == Join(dir, filename)
            wr == WriteText(md.dirs, files, path, content)
            begun == [run EXCEPT !.started = Append(@, step)]
            faulty == [begun EXCEPT !.fault = TRUE]
        IN  /\ fault = "mkdir" => subdir # <<>>
            /\ IF fault = "render"
               THEN run' = faulty /\ Abort(step, "RenderFailure", dirs, files, TRUE)
               ELSE IF fault = "mkdir"
               THEN run' = faulty /\ Abort(step, "OSError", dirs, files, TRUE)
               ELSE IF md.raised # ""
               THEN run' = begun /\ Abort(step, md.raised, dirs, files, FALSE)
               ELSE IF fault = "open"
               THEN run' = faulty /\ Abort(step, "OSError", md.dirs, files, TRUE)
               ELSE IF fault = "write"
               THEN run' = faulty
                    /\ Abort(step, "OSError", md.dirs,
                             Put(files, path, Truncated), TRUE)
               ELSE IF wr.raised # ""
               THEN run' = begun /\ Abort(step, wr.raised, md.dirs, files, FALSE)
               ELSE /\ run' = [begun EXCEPT
                                 !.written = Append(@, [step |-> step,
                                                        path |-> path])]
                    /\ dirs' = md.dirs
                    /\ files' = wr.files
                    /\ pc' = AfterStep(step)
                    /\ UNCHANGED <<input, output, registry, name, fields,
                                   parsed_fields, exit_code, stderr, history>>

GenerateCpt ==
    TemplateStep("cpt", "cpt.php.j2", D_includes,
                 S_cpt \o run.context.slug \o S_php)

GenerateAcfJson ==
    /\ pc = "acf_json"
    /\ \E fault \in Faults({"open", "write"}) :
        LET module_dir == run.module_dir
            acf_data == build_acf_json(registry, run.context.module_name,
                                       run.context.slug, parsed_fields, run.now)
            acf_file == Join(Join(module_dir, D_acf_json),
                             acf_data.key \o S_json)
            wr == WriteText(dirs, files, acf_file, JsonDumps(acf_data))
            begun == [run EXCEPT
                        !.started = Append(@, "acf_json"),
                        !.group_key = Some(acf_data.key),
                        !.field_keys =
                            Some([i \in DOMAIN acf_data.fields |->
                                     acf_data.fields[i].key])]
            faulty == [begun EXCEPT !.fault = TRUE]
        IN  IF fault = "open"
            THEN run' = faulty /\ Abort("acf_json", "OSError", dirs, files, TRUE)
            ELSE IF fault = "write"
            THEN run' = faulty
                 /\ Abort("acf_json", "OSError", dirs,
                          Put(files, acf_file, Truncated), TRUE)
            ELSE IF wr.raised # ""
            THEN run' = begun /\ Abort("acf_json", wr.raised, dirs, files, FALSE)
            ELSE /\ run' = [begun EXCEPT
                              !.written = Append(@, [step |-> "acf_json",
                                                     path |-> acf_file])]
                 /\ files' = wr.files
                 /\ pc' = AfterStep("acf_json")
                 /\ UNCHANGED <<input, output, registry, name, fields,
                                parsed_fields, dirs, exit_code, stderr,
                                history>>

GenerateSingleTemplate ==
    TemplateStep("single", "single.php.j2", D_templates,
                 S_single \o run.context.slug \o S_php)

GenerateArchiveTemplate ==
    TemplateStep("archive", "archive.php.j2", D_templates,
                 S_archive \o run.context.slug \o S_php)

GenerateShortcode ==
    TemplateStep("shortcode", "shortcode.php.j2", D_includes,
                 S_shortcode \o run.context.slug \o S_php)

GenerateMainPlugin ==
    TemplateStep("plugin", "plugin.php.j2", <<>>, run.context.slug \o S_php)

GenerateReadme ==
    TemplateStep("readme", "README.md.j2", <<>>, S_README_md)

\* the listing after generate() returned: rglob may raise an OSError, which
\* the same except clause reports; otherwise the command returns, status 0
ListFiles ==
    /\ pc = "list"
    /\ \E fault \in Faults({"rglob"}) :
        IF fault = "rglob"
        THEN /\ run' = [run EXCEPT !.fault = TRUE]
             /\ Abort("list", "OSError", dirs, files, TRUE)
        ELSE /\ exit_code' = Some(0)
             /\ pc' = "exited"
             /\ UNCHANGED <<input, output, registry, name, fields,
                            parsed_fields, dirs, files, stderr, run, history>>

Next ==
    \/ Invoke
    \/ ParseNextField
    \/ GenerateStart
    \/ GenerateCpt
    \/ GenerateAcfJson
    \/ GenerateSingleTemplate
    \/ GenerateArchiveTemplate
    \/ GenerateShortcode
    \/ GenerateMainPlugin
    \/ GenerateReadme
    \/ ListFiles

Spec == Init /\ [][Next]_vars

-----------------------------------------------------------------------------
(* SpecBuild: build_acf_json applied to one module and field list *)

BuildNames == {<<"B", "-", "c">>, <<"a">>}

\* Field records as the parser makes them, of every registered type
BuildFields ==
    {Field(to_snake_case(n), t, to_label(n)) :
        n \in BuildNames, t \in Range(SUPPORTED_KEYS)}

BuildSlugs == {<<"p", "e">>, <<"x", "-", "y">>}

InitBuild ==
    /\ input \in [module_name : ModuleNames,
                  slug : BuildSlugs,
                  fields : UNION {[1..k -> BuildFields] : k \in 0..MaxFields}]
    /\ output = None
    /\ registry = SUPPORTED_TYPES
    /\ ProcIdle

\* a call of build_acf_json; the registry is left as the calls of
\* build_acf_field leave it, one after the other
RECURSIVE RegistryAfter(_, _, _)
RegistryAfter(reg, module_name, flds) ==
    IF flds = <<>> THEN reg
    ELSE RegistryAfter(build_acf_field(reg, flds[1], module_name, 0).registry,
                       module_name, Tail(flds))

CallBuildAcfJson ==
    /\ pc = "idle"
    /\ \E now \in 1..2 :
        output' = Some(build_acf_json(registry, input.module_name, input.slug,
                                      input.fields, now))
    /\ registry' = RegistryAfter(registry, input.module_name, input.fields)
    /\ UNCHANGED <<input, procVars>>

NextBuild == CallBuildAcfJson

SpecBuild == InitBuild /\ [][NextBuild]_vars

-----------------------------------------------------------------------------
(* Properties of the normalizer (SpecNorm) *)

\* the accented characters slugify folds, with their base letters
MappedAccents ==
    {"à","á","â","ã","ä","å","è","é","ê","ë","ì","í","î","ï",
     "ò","ó","ô","õ","ö","ù","ú","û","ü","ç"}

BaseLetter(c) ==
    CASE c \in {"à","á","â","ã","ä","å"} -> "a"
      [] c \in {"è","é","ê","ë"} -> "e"
      [] c \in {"ì","í","î","ï"} -> "i"
      [] c \in {"ò","ó","ô","õ","ö"} -> "o"
      [] c \in {"ù","ú","û","ü"} -> "u"
      [] c = "ç" -> "c"
      [] OTHER -> c

\* a character of the input that survives: alphanumeric after lowercasing,
\* or a mapped accented letter
Survives(c) == LowerChar(c) \in AsciiAlnum \cup MappedAccents

\* the surviving characters of text, lowercased and folded, in order
Survivors(text) ==
    LET kept == SelectSeq(text, Survives)
    IN  [i \in DOMAIN kept |-> BaseLetter(LowerChar(kept[i]))]

NotHyphen(c) == c # "-"

\* C7: slugify's result holds only [a-z0-9-], neither starts nor ends with a
\* hyphen and has no two hyphens in a row; its non-hyphen characters are
\* exactly the surviving input characters, so every other character went
\* into a separator; and to_snake_case is slugify with '-' turned into '_'.
SlugifyWellFormed ==
    /\ output.slug # None =>
        LET s == output.slug[1] IN
        /\ Range(s) \subseteq AsciiAlnum \cup {"-"}
        /\ s # <<>> => s[1] # "-" /\ s[Len(s)] # "-"
        /\ \A i \in 1..(Len(s) - 1) : ~(s[i] = "-" /\ s[i + 1] = "-")
        /\ SelectSeq(s, NotHyphen) = Survivors(input)
    /\ output.slug # None /\ output.snake # None =>
        /\ Len(output.snake[1]) = Len(output.slug[1])
        /\ \A i \in DOMAIN output.slug[1] :
              output.snake[1][i] =
                 IF output.slug[1][i] = "-" THEN "_" ELSE output.slug[1][i]

\* C7 witness: both functions were applied to a text with an unmapped
\* character next to another separator between two kept characters
SlugifyRunCollapsed ==
    /\ output.slug # None
    /\ output.snake # None
    /\ Len(input) = 4
    /\ input[2] = "ñ"
    /\ input[3] = " "
    /\ output.slug[1] = <<"a", "-", "b">>
    /\ output.snake[1] = <<"a", "_", "b">>

-----------------------------------------------------------------------------
(* Properties of the field parser (SpecParse) *)

SnakeChars == AsciiAlnum \cup {"_"}

\* C5: every Field parse_field returns has a non-empty name over [a-z0-9_]
\* without leading, trailing or doubled underscore, and a registered type.
FieldInvariant ==
    (output # None /\ output[1].raised = "") =>
        LET f == output[1].value IN
        /\ f.name # <<>>
        /\ Range(f.name) \subseteq SnakeChars
        /\ f.name[1] # "_"
        /\ f.name[Len(f.name)] # "_"
        /\ \A i \in 1..(Len(f.name) - 1) :
              ~(f.name[i] = "_" /\ f.name[i + 1] = "_")
        /\ f.field_type \in DOMAIN SUPPORTED_TYPES

\* C6: parse_field fails with the format error exactly when the token has no
\* ':', fails with the type error, listing every registry key, exactly when
\* the text after the first ':' is no registry key, and otherwise returns
\* Field(to_snake_case(n), t, to_label(n)) for the parts n and t around the
\* first ':'.
ParseFieldContract ==
    output # None =>
        LET r == output[1] IN
        IF \A i \in DOMAIN input : input[i] # ":"
        THEN /\ r.raised = "BadParameter"
             /\ r.kind = "Format invalide"
        ELSE \E i \in DOMAIN input :
                /\ input[i] = ":"
                /\ \A j \in 1..(i - 1) : input[j] # ":"
                /\ LET n == [k \in 1..(i - 1) |-> input[k]]
                       t == [k \in 1..(Len(input) - i) |-> input[i + k]]
                   IN  IF t \in Range(SUPPORTED_KEYS)
                       THEN r = [raised |-> "",
                                 value |-> [name |-> to_snake_case(n),
                                            field_type |-> t,
                                            label |-> to_label(n)]]
                       ELSE /\ r.raised = "BadParameter"
                            /\ r.kind = "Type non supporté"
                            /\ r.text = t
                            /\ Range(r.valid) = DOMAIN SUPPORTED_TYPES

\* C6 witness: a token with an accented, mixed-case, hyphenated name and a
\* registered type was parsed into a Field
ParsedAccentedName ==
    /\ output # None
    /\ input = <<"é", "-", "B", ":">> \o T_date
    /\ output[1].raised = ""
    /\ output[1].value.name = <<"e", "_", "b">>
    /\ output[1].value.label = <<"É", " ", "B">>
    /\ output[1].value.field_type = T_date

-----------------------------------------------------------------------------
(* Properties of the key generator (SpecKey) *)

\* C9: two different (module name, field name) pairs never give the same
\* string to hash.
DistinctPairsDistinctHashInput ==
    (output # None /\ <<input.m1, input.f1>> # <<input.m2, input.f2>>) =>
        output[1].s1 # output[1].s2

-----------------------------------------------------------------------------
(* Properties of the schema builder (SpecBuild) *)

FixedEntryKeys ==
    {"key", "label", "name", "type", "instructions", "required",
     "conditional_logic", "wrapper"}

\* C8: the document has one entry per input Field, in order; each entry
\* carries the field key of (module_name, field.name), the Field's label and
\* name, the registry's kind for its type and the fixed defaults, none of
\* them overwritten by the registry's attributes, of which the extra ones
\* are all present; the one location rule has value slug; and the registry
\* is as it was.
SchemaEntriesFaithful ==
    output # None =>
        LET doc == output[1]
            flds == input.fields
        IN  /\ Len(doc.fields) = Len(flds)
            /\ \A i \in DOMAIN flds :
                LET e == doc.fields[i]
                    f == flds[i]
                    def == SUPPORTED_TYPES[f.field_type]
                IN  /\ e.key = <<"f","i","e","l","d","_">> \o
                          md5_hexdigest_prefix(input.module_name \o <<"_">>
                                               \o f.name)
                    /\ e.label = f.label
                    /\ e.name = f.name
                    /\ e.type = def.type
                    /\ e.instructions = ""
                    /\ e.required = 0
                    /\ e.conditional_logic = 0
                    /\ e.wrapper = [width |-> "", class |-> "", id |-> ""]
                    /\ DOMAIN e =
                          FixedEntryKeys \cup ((DOMAIN def) \ {"type", "label"})
                    /\ \A k \in (DOMAIN def) \ {"type", "label"} : e[k] = def[k]
            /\ Len(doc.location) = 1
            /\ Len(doc.location[1]) = 1
            /\ doc.location[1][1] =
                  [param |-> "post_type", operator |-> "==",
                   value |-> input.slug]
            /\ registry = SUPPORTED_TYPES

\* C8 witness: a document was built for a select field followed by a date
\* field, with a slug that is not the module name's
SchemaBuiltForTwoFields ==
    /\ output # None
    /\ input.slug = <<"x", "-", "y">>
    /\ Len(input.fields) = 2
    /\ input.fields[1].field_type = T_select
    /\ input.fields[2].field_type = T_date
    /\ output[1].fields[1].type = "select"
    /\ output[1].fields[2].type = "date_picker"
    /\ output[1].fields[2].return_format = "Y-m-d"
    /\ output[1].fields[1].label = <<"B", " ", "C">>

-----------------------------------------------------------------------------
(* Properties of the `module` command (Spec) *)

Running == pc # "idle"

TokenParses(token) == parse_field(token).raised = ""

ArtifactOrder ==
    <<"cpt", "acf_json", "single", "archive", "shortcode", "plugin", "readme">>

IsPrefix(s, t) == Len(s) <= Len(t) /\ \A i \in DOMAIN s : s[i] = t[i]

WrittenSteps == [i \in DOMAIN run.written |-> run.written[i].step]

WrittenPaths == {run.written[i].path : i \in DOMAIN run.written}

\* C1: a run with the arguments of the run before it, which succeeded, and
\* with no failing render or file-system call succeeds too, writes the same
\* seven paths (the schema file named after the group key among them),
\* leaves the module directory with the same files, and computes the same
\* group key and field keys although its clock reading differs.
RerunIdempotent ==
    (/\ pc = "exited"
     /\ history.prev # None
     /\ history.prev[1].exit_code = Some(0)
     /\ history.prev[1].name = name
     /\ history.prev[1].fields = fields
     /\ ~run.fault) =>
        LET prev == history.prev[1] IN
        /\ exit_code = Some(0)
        /\ WrittenPaths = prev.paths
        /\ Cardinality(WrittenPaths) = 7
        /\ FilesUnder(files, run.module_dir) = prev.tree
        /\ run.group_key = prev.group_key
        /\ run.field_keys = prev.field_keys
        /\ Join(Join(run.module_dir, D_acf_json),
                run.group_key[1] \o S_json) \in WrittenPaths
        /\ run.now # prev.now

\* C1 witness: the command succeeded twice in a row with the same two fields
RerunSucceeded ==
    /\ pc = "exited"
    /\ history.prev # None
    /\ history.prev[1].exit_code = Some(0)
    /\ history.prev[1].name = name
    /\ history.prev[1].fields = fields
    /\ Len(fields) = 2
    /\ ~run.fault
    /\ exit_code = Some(0)
    /\ Len(run.written) = 7

\* C2: when a token of the command line does not parse, the run never
\* starts the generator and leaves directories and files as it found them,
\* and it ends with the parse error reported and status 1; the generator
\* starts only when every token has been parsed.
ParseBeforeEffects ==
    Running =>
        /\ (\E i \in DOMAIN fields : ~TokenParses(fields[i])) =>
              /\ ~run.generate_started
              /\ dirs = run.dirs0
              /\ files = run.files0
              /\ pc = "exited" =>
                    /\ run.parse_failed
                    /\ exit_code = Some(1)
                    /\ Len(stderr) = 1
        /\ run.parse_failed =>
              /\ dirs = run.dirs0
              /\ files = run.files0
              /\ exit_code = Some(1)
        /\ run.generate_started =>
              /\ Len(parsed_fields) = Len(fields)
              /\ \A i \in DOMAIN fields : TokenParses(fields[i])

\* C2 witness: the second token failed to parse, in a run started on the
\* output of an earlier run
SecondTokenRejected ==
    /\ pc = "exited"
    /\ run.parse_failed
    /\ Len(parsed_fields) = 1
    /\ Len(fields) = 2
    /\ run.files0 # <<>>
    /\ exit_code = Some(1)

\* C3: the steps begun and the artifacts written are prefixes of the fixed
\* order; a step that fails is the last one begun, ends the run with status
\* 1 and leaves the artifacts written before it in place; status 0 is given
\* only with all seven written.
StepsInOrderAbortOnFirst ==
    Running =>
        /\ IsPrefix(run.started, ArtifactOrder)
        /\ IsPrefix(WrittenSteps, ArtifactOrder)
        /\ Len(run.started) - Len(run.written) \in {0, 1}
        /\ Len(run.started) > Len(run.written) =>
              /\ pc = "exited"
              /\ exit_code = Some(1)
        /\ pc \in Range(ArtifactOrder) =>
              /\ Len(run.started) = Len(run.written)
              /\ pc = ArtifactOrder[Len(run.written) + 1]
        /\ \A p \in WrittenPaths : p \in DOMAIN files /\ files[p] # Truncated
        /\ exit_code = Some(0) => Len(run.written) = 7
        /\ (pc = "exited" /\ Len(run.written) < 7) => exit_code = Some(1)

\* C3 witness: the archive template step failed after three artifacts were
\* written
FourthStepFailed ==
    /\ pc = "exited"
    /\ exit_code = Some(1)
    /\ Len(run.started) = 4
    /\ Len(run.written) = 3
    /\ run.started[4] = "archive"
    /\ \A p \in WrittenPaths : p \in DOMAIN files

\* C4: when the first artifact step begins, the module root and its
\* acf-json, includes and templates directories all exist.
DirsBeforeFirstStep ==
    (Running /\ run.dirs_at_first_step # None) =>
        {run.module_dir,
         Join(run.module_dir, D_acf_json),
         Join(run.module_dir, D_includes),
         Join(run.module_dir, D_templates)} \subseteq run.dirs_at_first_step[1]

\* C10: after successful runs whose module names all have the same slug,
\* the acf-json directory of that module holds exactly one file.
OneSchemaPerModuleDir ==
    (/\ pc = "exited"
     /\ exit_code = Some(0)
     /\ history.all_ok
     /\ history.slugs \subseteq {slugify(name)}) =>
        Cardinality(FilesIn(files, Join(run.module_dir, D_acf_json))) = 1

====
